---- MODULE Spec2Model ----
(***************************************************************************)
(* Delegation-scoped credential broker of go-http-pgsql-krb5.              *)
(*                                                                         *)
(* One process per inbound request (net/http runs every handler on its own *)
(* goroutine) plus library callers of PoolForUser.  The only state shared  *)
(* between requests is pgconn's process-wide GSS provider registration     *)
(* (newGSS), written by pgconn.RegisterGSSProvider and read by pgconn at   *)
(* connection time.  The register is one machine word and is accessed      *)
(* without synchronisation: a racing read returns one of the values        *)
(* written, which the interleaving of the atomic steps below enumerates.   *)
(*                                                                         *)
(* Strings that the code takes apart are sequences of lexical pieces,      *)
(* e.g. the header "FILE:/tmp/cc_a" is <<"FILE", ":", "/tmp/cc_a">>.       *)
(*                                                                         *)
(* Spec is the server: requests, handlers, the two adapters.  The process  *)
(* environment (env) is read with os.Getenv and never changes; ctx[r] is   *)
(* the context a handler passes downstream.  SpecHost applies the SPN      *)
(* derivations of the two adapters to hostnames, on their own.             *)
(***************************************************************************)
EXTENDS Naturals, Sequences, FiniteSets

\* ------------------------------------------------------------------ bounds

\* Number of requests (handler invocations and PoolForUser callers).
NumReq == 2
\* Largest number of rows the database returns for one query.
MaxRows == 2
\* Connections one pool opens over its life (MaxConns = 1 at a time).
MaxDials == 1
\* Cap on the tokens one handshake may send before the model stops the loop.
MaxSend == 2
\* Longest hostname (in characters) the SPN derivations are applied to.
MaxHost == 4

Reqs == 1..NumReq

\* ------------------------------------------------------- inputs, environment

Kinds == {"user_show", "test_db", "pool"}

\* Values of the X_krb5ccname header a client may send.
Headers ==
  { <<>>,
    <<"/tmp/cc_a">>,
    <<"FILE", ":", "/tmp/cc_a">>,
    <<"FILE", ":", "/tmp/cc_b">> }

CCaches == { <<"/tmp/cc_a">>, <<"/tmp/cc_b">> }

\* Values of the uid query parameter ("" when absent).
Uids == { "", "jdoe" }

\* Rows "select current_user, session_user, now()" may produce.
RowVals == { <<"jdoe", "jdoe", 1>>, <<"app", "jdoe", 2>> }

\* What the database peer may put in an AuthenticationGSSContinue message.
PeerReplies == { "AP_REP", "KRB_ERROR", "garbage", "empty" }

\* Environment of the process (os.Getenv), as deployed.
PG_HOST == <<"D", "b", ".">>
KRB5_CONFIG_PATH == <<"/etc/krb5.conf">>
FREEIPA_BASE_URL == <<"https://", "IPA", ".", "d">>

\* KRB5_CONFIG_PATH may be unset: main.go falls back to /etc/krb5.conf for
\* its own use only, the handlers pass os.Getenv("KRB5_CONFIG_PATH") as is.
Environments ==
  { [KRB5_CONFIG_PATH |-> k, PG_HOST |-> PG_HOST,
     FREEIPA_BASE_URL |-> FREEIPA_BASE_URL] : k \in {KRB5_CONFIG_PATH, <<>>} }

\* GSS context flags (gssapi.ContextFlag*): one bit each of the flags word
\* of the authenticator checksum (RFC 4121, 4.1.1).
ContextFlagInteg == 32
ContextFlagConf == 16
ContextFlagMutual == 2

\* ------------------------------------------------------------ pure helpers

RECURSIVE SplitAcc(_, _, _, _)
SplitAcc(s, sep, cur, acc) ==
  IF s = <<>> THEN Append(acc, cur)
  ELSE IF Head(s) = sep
       THEN SplitAcc(Tail(s), sep, <<>>, Append(acc, cur))
       ELSE SplitAcc(Tail(s), sep, Append(cur, Head(s)), acc)

\* strings.Split(s, sep): the pieces of s between occurrences of sep;
\* a string without sep gives one piece.
Split(s, sep) == SplitAcc(s, sep, <<>>, <<>>)

ToLowerChar(c) == IF c = "D" THEN "d" ELSE IF c = "B" THEN "b" ELSE c

\* strings.ToLower
ToLower(h) == [i \in 1..Len(h) |-> ToLowerChar(h[i])]

\* strings.TrimSuffix(h, "."): at most one trailing dot is removed.
TrimSuffixDot(h) ==
  IF Len(h) > 0 /\ h[Len(h)] = "." THEN SubSeq(h, 1, Len(h) - 1) ELSE h

canonicalizeHost(h) == TrimSuffixDot(ToLower(h))

\* ------------------------------------------------------ http.ResponseWriter

NoResponse == [status |-> 0, body |-> <<>>, calls |-> <<>>, superfluous |-> 0]

\* The first WriteHeader decides the status; a call made when the header is
\* already out (by an earlier call or by a Write) changes nothing and is
\* logged as superfluous.
WriteHeader(rw, code) ==
  [rw EXCEPT !.status = IF rw.status = 0 THEN code ELSE @,
             !.calls = Append(@, code),
             !.superfluous = IF rw.status = 0 THEN @ ELSE @ + 1]

\* Write sends an implicit 200 when no header was written yet.
Write(rw, data) ==
  [rw EXCEPT !.status = IF rw.status = 0 THEN 200 ELSE @,
             !.body = Append(@, data)]

\* http.Error(w, msg, code)
HttpError(rw, msg, code) ==
  Write(WriteHeader(rw, code), [kind |-> "error", val |-> msg])

\* ------------------------------------------------------------------- state

VARIABLES
  pc,       \* pc[r]: where request r is
  inp,      \* inp[r]: what the request carries (kind, header, uid, identity)
  ccache,   \* ccache[r]: the handler's local credential-cache locator
  newGSS,   \* pgconn's process-wide GSS provider registration
  conn,     \* conn[r]: the database connection request r opened
  rows,     \* rows[r]: the rows QueryAsUser has collected so far
  ret,      \* ret[r]: what QueryAsUser / UserShow returned
  ipa,      \* ipa[r]: loginKerberos / UserShow locals (token, cookie)
  w,        \* w[r]: the http.ResponseWriter of request r
  trace,    \* trace[r]: calls request r made to its collaborators, in order
  ctx,      \* ctx[r]: the context.Context request r passes downstream
  env,      \* the environment of the process (os.Getenv)
  spns      \* the service principal names derived from env, per adapter

vars == <<pc, inp, ccache, newGSS, conn, rows, ret, ipa, w, trace, ctx, env,
          spns>>

NoInput == [kind |-> "none", header |-> <<>>, uid |-> "", hasId |-> FALSE]
NoFactory == [owner |-> 0, ccache |-> <<>>]
NoGSS == [owner |-> 0, ccache |-> <<>>, ok |-> FALSE]
NoConn == [state |-> "none", gss |-> NoGSS, sent |-> <<>>]
NoRet == [set |-> FALSE, rows |-> <<>>, info |-> "", err |-> "",
          remote |-> <<>>]
NoSPN == [wire |-> <<>>, http |-> <<>>, again |-> <<>>]
NoIpa == [token |-> <<>>, cookie |-> <<>>, logins |-> <<>>, answer |-> <<>>,
          rpcs |-> <<>>, reply |-> <<>>]

\* A call to a collaborator, as the collaborator saw it; tok is what was sent.
Ev(op, ok) == [op |-> op, ok |-> ok, tok |-> <<>>]
EvTok(op, ok, tok) == [op |-> op, ok |-> ok, tok |-> tok]

\* No request has arrived and nothing is registered.
InitRequests ==
  /\ pc = [r \in Reqs |-> "idle"]
  /\ inp = [r \in Reqs |-> NoInput]
  /\ ccache = [r \in Reqs |-> <<>>]
  /\ newGSS = NoFactory
  /\ conn = [r \in Reqs |-> NoConn]
  /\ rows = [r \in Reqs |-> <<>>]
  /\ ret = [r \in Reqs |-> NoRet]
  /\ ipa = [r \in Reqs |-> NoIpa]
  /\ w = [r \in Reqs |-> NoResponse]
  /\ trace = [r \in Reqs |-> <<>>]
  /\ ctx = [r \in Reqs |-> "none"]

Init ==
  /\ InitRequests
  /\ env \in Environments
  /\ spns = NoSPN


\* Replace the state of request r in one per-request variable.
Set(f, r, v) == [f EXCEPT ![r] = v]

Log(r, evs) == Set(trace, r, trace[r] \o evs)

\* Number of events of trace t that call op.
RECURSIVE CountOp(_, _)
CountOp(t, op) ==
  IF t = <<>> THEN 0
  ELSE (IF Head(t).op = op THEN 1 ELSE 0) + CountOp(Tail(t), op)

\* ------------------------------------------------ gssFromCCache (provider.go)

\* NewGSSFromCCache(ccachePath, krb5ConfPath): load the credential cache, then
\* the realm configuration (unless the path is ""), then build the client.
\* failAt names the step the environment lets fail ("" for none).
NewGSSFromCCache(owner, ccachePath, krb5ConfPath, failAt) ==
  IF failAt = "ccache" \/ ccachePath = <<>>
  THEN [gss |-> NoGSS, err |-> "load ccache",
        evs |-> <<Ev("LoadCCache", FALSE)>>]
  ELSE IF krb5ConfPath # <<>> /\ failAt = "config"
  THEN [gss |-> NoGSS, err |-> "load krb5.conf",
        evs |-> <<Ev("LoadCCache", TRUE), Ev("LoadConfig", FALSE)>>]
  ELSE LET loaded == <<Ev("LoadCCache", TRUE)>> \o
                     (IF krb5ConfPath # <<>> THEN <<Ev("LoadConfig", TRUE)>>
                                             ELSE <<>>)
       IN IF failAt = "client"
          THEN [gss |-> NoGSS, err |-> "client from ccache",
                evs |-> loaded \o <<Ev("NewClient", FALSE)>>]
          ELSE [gss |-> [owner |-> owner, ccache |-> ccachePath, ok |-> TRUE],
                err |-> "",
                evs |-> loaded \o <<Ev("NewClient", TRUE)>>]

\* A provider that asks for integrity and confidentiality only.
WireFlagsNoMutual == <<ContextFlagInteg, ContextFlagConf>>

\* The flags GetInitTokenFromSPN asks NewKRB5TokenAPREQ for.
WireFlags == <<ContextFlagInteg, ContextFlagConf, ContextFlagMutual>>

\* a | b on non-negative integers.
RECURSIVE BitOr(_, _)
BitOr(a, b) ==
  IF a = 0 THEN b
  ELSE IF b = 0 THEN a
  ELSE 2 * BitOr(a \div 2, b \div 2)
       + (IF a % 2 = 1 \/ b % 2 = 1 THEN 1 ELSE 0)

\* The flags word NewKRB5TokenAPREQ writes into the authenticator checksum:
\* the flags of the list or-ed together.
RECURSIVE FlagsWord(_)
FlagsWord(flags) ==
  IF flags = <<>> THEN 0 ELSE BitOr(Head(flags), FlagsWord(Tail(flags)))

\* spnego.NewKRB5TokenAPREQ + Marshal: the token carries the ticket's SPN,
\* the client's credentials, the flags and a fresh authenticator (nonce).
KRB5TokenAPREQ(cc, spn, flags, nonce) ==
  [spn |-> spn, ccache |-> cc, flags |-> FlagsWord(flags), auth |-> nonce]

\* The authenticator of the n-th token request r builds: every call of
\* NewKRB5TokenAPREQ generates a new one.
NewAuthenticator(r, built) == <<r, built + 1>>

\* A provider that keeps one marshalled token and hands it out again
\* instead of building a token for every handshake.
GetInitTokenFromSPNCached(g, spn, nonce, failAt) ==
  [tok |-> <<KRB5TokenAPREQ(g.ccache, spn, WireFlags, <<0, 0>>)>>,
   err |-> "",
   evs |-> <<Ev("GetServiceTicket", TRUE), Ev("BuildToken", TRUE),
             Ev("Marshal", TRUE)>>]

\* GetInitTokenFromSPN(spn): service ticket, AP_REQ token, Marshal.
GetInitTokenFromSPN(g, spn, nonce, failAt) ==
  IF failAt = "ticket"
  THEN [tok |-> <<>>, err |-> "get service ticket",
        evs |-> <<Ev("GetServiceTicket", FALSE)>>]
  ELSE IF failAt = "build"
  THEN [tok |-> <<>>, err |-> "build KRB5 token",
        evs |-> <<Ev("GetServiceTicket", TRUE), Ev("BuildToken", FALSE)>>]
  ELSE IF failAt = "marshal"
  THEN [tok |-> <<>>, err |-> "marshal",
        evs |-> <<Ev("GetServiceTicket", TRUE), Ev("BuildToken", TRUE),
                  Ev("Marshal", FALSE)>>]
  ELSE [tok |-> <<KRB5TokenAPREQ(g.ccache, spn, WireFlags, nonce)>>,
        err |-> "",
        evs |-> <<Ev("GetServiceTicket", TRUE), Ev("BuildToken", TRUE),
                  Ev("Marshal", TRUE)>>]

\* GetInitToken(host, service)
GetInitToken(g, host, service, nonce, failAt) ==
  GetInitTokenFromSPN(g, <<service, "/">> \o canonicalizeHost(host),
                      nonce, failAt)

\* spnego.KRB5Token.Unmarshal accepts well-formed Kerberos messages only.
UnmarshalOK(inToken) == inToken \in {"AP_REP", "KRB_ERROR"}

\* A handshake that answers a well-formed peer message with a further token.
ContinueMultiRound(inToken) ==
  IF ~UnmarshalOK(inToken)
  THEN [done |-> TRUE, out |-> <<>>, err |-> ""]
  ELSE [done |-> FALSE, out |-> <<"next">>, err |-> ""]

\* Continue(inToken): whatever the peer sent, the exchange is complete and
\* no further token goes out.
Continue(inToken) ==
  IF ~UnmarshalOK(inToken)
  THEN [done |-> TRUE, out |-> <<>>, err |-> ""]
  ELSE [done |-> TRUE, out |-> <<>>, err |-> ""]


\* ------------------------------------------------------- main.go: the server

\* A request arrives (main.go routes GET /user_show and GET /test_db through
\* spnego.SPNEGOKRB5Authenticate): a request that fails the inbound SPNEGO
\* handshake is answered 401 by the middleware and never reaches a handler;
\* otherwise the handler runs with the authenticated identity in its context.
\* The http.Server sets no timeouts: r.Context() carries no deadline.
Serve(r) ==
  /\ pc[r] = "idle"
  /\ \E kind \in {"user_show", "test_db"}, header \in Headers,
        uid \in Uids, authenticated \in BOOLEAN :
       /\ kind = "test_db" => uid = ""
       /\ inp' = Set(inp, r, [kind |-> kind, header |-> header, uid |-> uid,
                              hasId |-> authenticated])
       /\ IF authenticated
          THEN /\ pc' = Set(pc, r, IF kind = "user_show" THEN "IpaUserHandler"
                                                         ELSE "TestSelectHandler")
               /\ w' = w
          ELSE /\ pc' = Set(pc, r, "done")
               /\ w' = Set(w, r, HttpError(w[r], "Unauthorised.", 401))
  /\ ctx' = Set(ctx, r, "background")
  /\ UNCHANGED <<ccache, newGSS, conn, rows, ret, ipa, trace, env, spns>>

\* ------------------------------------------- TestSelectHandler (entry part)

\* Lines 228-246 of the handler: what it answers and where it goes next.
\* A handler that panics is cut off by net/http: the connection is dropped
\* and nothing of the buffered response reaches the client.
TestSelectEntry(rw, ccacheRaw, hasId) ==
  IF ccacheRaw = <<>>
  THEN [w |-> HttpError(rw, "no delegated credentials", 401),
        pc |-> "done", ccache |-> <<>>]
  ELSE LET parts == Split(ccacheRaw, ":") IN
       IF Len(parts) < 2
       THEN \* strings.Split(ccacheRaw, ":")[1]: index out of range
            [w |-> rw, pc |-> "panic", ccache |-> <<>>]
       ELSE IF ~hasId
       THEN \* 401 is written, no return: id.UserName() on nil panics
            [w |-> HttpError(rw, "id is required", 401),
             pc |-> "panic", ccache |-> parts[2]]
       ELSE [w |-> rw, pc |-> "QueryAsUser", ccache |-> parts[2]]

TestSelectHandler(r) ==
  /\ pc[r] = "TestSelectHandler"
  /\ LET e == TestSelectEntry(w[r], inp[r].header, inp[r].hasId) IN
       /\ w' = Set(w, r, e.w)
       /\ pc' = Set(pc, r, e.pc)
       /\ ccache' = Set(ccache, r, e.ccache)
  /\ UNCHANGED <<inp, newGSS, conn, rows, ret, ipa, trace, ctx, env, spns>>

\* ------------------------------------------------------------- QueryAsUser

\* The closure QueryAsUser / PoolForUser hands to pgconn.RegisterGSSProvider.
Factory(r, ccachePath) == [owner |-> r, ccache |-> ccachePath]

\* Deferred calls that run in the order they were registered: the
\* connection is closed first and the row sequence after it.
DeferredFIFO(connOpen, rowsOpen) ==
  (IF connOpen THEN <<Ev("conn.Close", TRUE)>> ELSE <<>>)
  \o (IF rowsOpen THEN <<Ev("rows.Close", TRUE)>> ELSE <<>>)

\* Lines 116 and 122: defer conn.Close(ctx) is registered before
\* defer r.Close(); deferred calls run last-in first-out when QueryAsUser
\* returns, each only if the code got as far as registering it.
Deferred(connOpen, rowsOpen) ==
  (IF rowsOpen THEN <<Ev("rows.Close", TRUE)>> ELSE <<>>)
  \o (IF connOpen THEN <<Ev("conn.Close", TRUE)>> ELSE <<>>)

\* QueryAsUser returns to TestSelectHandler; the deferred r.Close() and
\* conn.Close(ctx) run, in that order, for whatever was opened.
Return(r, rs, err, rowsOpen) ==
  /\ ret' = Set(ret, r, [set |-> TRUE, rows |-> rs, info |-> "", err |-> err,
                         remote |-> <<>>])
  /\ conn' = Set(conn, r, IF conn[r].state = "none" THEN conn[r]
                          ELSE [conn[r] EXCEPT !.state = "CLOSED"])
  /\ trace' = Log(r, Deferred(conn[r].state = "ESTABLISHED", rowsOpen))
  /\ pc' = Set(pc, r, "TestSelectRespond")

\* Lines 96-107: register the factory, then parse the DSN.
QueryAsUser_Register(r) ==
  /\ pc[r] = "QueryAsUser"
  /\ newGSS' = Factory(r, ccache[r])
  /\ \E dsnOk \in BOOLEAN :
       IF dsnOk
       THEN /\ pc' = Set(pc, r, "ConnectConfig")
            /\ UNCHANGED <<ret, conn, trace>>
       ELSE Return(r, <<>>, "parse dsn", FALSE)
  /\ UNCHANGED <<inp, ccache, rows, ipa, w, ctx, env, spns>>

\* ------------------------------------------- pgx.ConnectConfig and pgconn

\* A connection attempt of request r ended in failure: QueryAsUser returns
\* the error; a pool reports it to the caller of Acquire.
ConnectFailed(r, err, evs) ==
  IF inp[r].kind = "pool"
  THEN /\ conn' = Set(conn, r, [conn[r] EXCEPT !.state = "FAILED"])
       /\ trace' = Log(r, evs)
       /\ pc' = Set(pc, r, "pool")
       /\ ret' = ret
  ELSE /\ conn' = Set(conn, r, [conn[r] EXCEPT !.state = "FAILED"])
       /\ trace' = Log(r, evs)
       /\ ret' = Set(ret, r, [set |-> TRUE, rows |-> <<>>, info |-> "",
                              err |-> err, remote |-> <<>>])
       /\ pc' = Set(pc, r, "TestSelectRespond")

\* Line 112 (and a pool's dial): the transport connects and the server asks
\* for GSS authentication, or the dial fails.
ConnectConfig(r) ==
  /\ pc[r] = "ConnectConfig"
  /\ \E dialOk \in BOOLEAN :
       IF dialOk
       THEN /\ conn' = Set(conn, r, [state |-> "INIT", gss |-> NoGSS,
                                     sent |-> <<>>])
            /\ trace' = Log(r, <<Ev("Dial", TRUE)>>)
            /\ pc' = Set(pc, r, "gssAuth")
            /\ ret' = ret
       ELSE ConnectFailed(r, "dial", <<Ev("Dial", FALSE)>>)
  /\ UNCHANGED <<inp, ccache, newGSS, rows, ipa, w, ctx, env, spns>>

\* pgconn's gssAuth, first step: it calls whatever factory is registered at
\* this moment; the factory runs NewGSSFromCCache with the path it captured.
gssAuth_NewGSS(r) ==
  /\ pc[r] = "gssAuth"
  /\ \E failAt \in {"", "ccache", "config", "client"} :
       LET f == newGSS
           g == NewGSSFromCCache(f.owner, f.ccache, env.KRB5_CONFIG_PATH,
                                 failAt)
       IN IF g.err = ""
          THEN /\ conn' = Set(conn, r, [conn[r] EXCEPT !.gss = g.gss])
               /\ trace' = Log(r, g.evs)
               /\ pc' = Set(pc, r, "GetInitToken")
               /\ ret' = ret
          ELSE ConnectFailed(r, g.err, g.evs)
  /\ UNCHANGED <<inp, ccache, newGSS, rows, ipa, w, ctx, env, spns>>

\* gssAuth, second step: GetInitToken(host, "postgres") and the token is
\* sent to the server in a GSSResponse.
gssAuth_GetInitToken(r) ==
  /\ pc[r] = "GetInitToken"
  /\ \E failAt \in {"", "ticket", "build", "marshal"} :
       LET t == GetInitToken(conn[r].gss, env.PG_HOST, "postgres",
                             NewAuthenticator(r, CountOp(trace[r], "BuildToken")),
                             failAt)
       IN IF t.err = ""
          THEN /\ conn' = Set(conn, r, [conn[r] EXCEPT !.state = "TOKEN_SENT",
                                                       !.sent = @ \o t.tok])
               /\ trace' = Log(r, t.evs \o <<EvTok("SendToken", TRUE, t.tok)>>)
               /\ pc' = Set(pc, r, "Continue")
               /\ ret' = ret
          ELSE ConnectFailed(r, t.err, t.evs)
  /\ UNCHANGED <<inp, ccache, newGSS, rows, ipa, w, ctx, env, spns>>

\* The handshake is over and the server accepted it.
Established(r, evs) ==
  /\ conn' = Set(conn, r, [conn[r] EXCEPT !.state = "ESTABLISHED"])
  /\ pc' = Set(pc, r, IF inp[r].kind = "pool" THEN "pool" ELSE "Query")
  /\ trace' = Log(r, evs)
  /\ ret' = ret

\* gssAuth, the loop: the server rejects the token, or sends a GSSContinue
\* message that Continue looks at; while Continue is not done its token is
\* sent and the loop goes round again.
gssAuth_Continue(r) ==
  /\ pc[r] = "Continue"
  /\ \/ ConnectFailed(r, "rejected", <<>>)
     \/ \E inToken \in PeerReplies :
          LET c == Continue(inToken) IN
          IF c.done
          THEN \/ Established(r, <<Ev("Continue", TRUE)>>)
               \/ ConnectFailed(r, "rejected", <<Ev("Continue", TRUE)>>)
          ELSE /\ Len(conn[r].sent) < MaxSend
               /\ conn' = Set(conn, r, [conn[r] EXCEPT !.sent = @ \o c.out])
               /\ trace' = Log(r, <<Ev("Continue", TRUE),
                                    EvTok("SendToken", TRUE, c.out)>>)
               /\ UNCHANGED <<pc, ret>>
  /\ UNCHANGED <<inp, ccache, newGSS, rows, ipa, w, ctx, env, spns>>

\* Line 118: conn.Query
QueryAsUser_Query(r) ==
  /\ pc[r] = "Query"
  /\ \E queryOk \in BOOLEAN :
       IF queryOk
       THEN /\ trace' = Log(r, <<Ev("Query", TRUE)>>)
            /\ rows' = Set(rows, r, <<>>)
            /\ pc' = Set(pc, r, "Next")
            /\ UNCHANGED <<ret, conn>>
       ELSE /\ Return(r, <<>>, "query", FALSE)
            /\ rows' = rows
  /\ UNCHANGED <<inp, ccache, newGSS, ipa, w, ctx, env, spns>>

\* Lines 125-132: one turn of the row loop, or its end.
QueryAsUser_Next(r) ==
  /\ pc[r] = "Next"
  /\ \/ /\ Len(rows[r]) < MaxRows
        /\ \E vals \in RowVals :
             /\ rows' = Set(rows, r, Append(rows[r], vals))
             /\ UNCHANGED <<pc, ret, conn, trace>>
     \/ /\ Len(rows[r]) < MaxRows
        /\ Return(r, <<>>, "values", TRUE)
        /\ rows' = rows
     \/ /\ \E rowsErr \in {"", "rows"} : Return(r, rows[r], rowsErr, TRUE)
        /\ rows' = rows
  /\ UNCHANGED <<inp, ccache, newGSS, ipa, w, ctx, env, spns>>


\* ------------------------------------------ TestSelectHandler (result part)

ZeroDbData == [current_user |-> "", session_user |-> "", timestamp |-> 0]

\* The three type assertions of lines 267-269.
DecodeRow(row) ==
  [current_user |-> row[1], session_user |-> row[2], timestamp |-> row[3]]

\* make([]dbData, n): n zero-valued records.
MakeDbData(n) == [i \in 1..n |-> ZeroDbData]

\* Lines 261-272: the list starts as make([]dbData, len(rows)) and every
\* decoded row is appended to it.
UserDataList(rs) ==
  MakeDbData(Len(rs)) \o [i \in 1..Len(rs) |-> DecodeRow(rs[i])]

\* json.NewEncoder(w).Encode(v): the value is written to w; when the write
\* fails the implicit 200 header has been committed and the body is lost.
Encode(rw, v, ok) ==
  IF ok THEN Write(rw, [kind |-> "json", val |-> v])
  ELSE [rw EXCEPT !.status = IF rw.status = 0 THEN 200 ELSE @]

\* Lines 256-279.
TestSelectResult(rw, rs, err, encodeOk) ==
  IF err # ""
  THEN HttpError(rw, err, 500)
  ELSE LET sent == Encode(rw, UserDataList(rs), encodeOk) IN
       IF encodeOk THEN sent ELSE HttpError(sent, "encode", 500)

TestSelectRespond(r) ==
  /\ pc[r] = "TestSelectRespond"
  /\ \E encodeOk \in BOOLEAN :
       /\ ret[r].err # "" => encodeOk
       /\ w' = Set(w, r, TestSelectResult(w[r], ret[r].rows, ret[r].err,
                                          encodeOk))
  /\ pc' = Set(pc, r, "done")
  /\ UNCHANGED <<inp, ccache, newGSS, conn, rows, ret, ipa, trace,
               ctx, env, spns>>

\* ------------------------------------------------------------- PoolForUser

\* PoolForUser(ctx, dsn, ccachePath, krb5Conf): register the factory, parse
\* the DSN, return a pool of at most one connection that dials lazily.
PoolForUser(r) ==
  /\ pc[r] = "idle"
  /\ \E ccachePath \in CCaches, dsnOk \in BOOLEAN :
       /\ inp' = Set(inp, r, [kind |-> "pool", header |-> <<>>, uid |-> "",
                              hasId |-> TRUE])
       /\ ccache' = Set(ccache, r, ccachePath)
       /\ newGSS' = Factory(r, ccachePath)
       /\ pc' = Set(pc, r, IF dsnOk THEN "pool" ELSE "done")
  /\ UNCHANGED <<conn, rows, ret, ipa, w, trace, ctx, env, spns>>

\* The pool's owner asks for a connection and the pool has none: it dials.
PoolAcquire(r) ==
  /\ pc[r] = "pool"
  /\ conn[r].state \in {"none", "FAILED", "CLOSED"}
  /\ CountOp(trace[r], "Dial") < MaxDials
  /\ pc' = Set(pc, r, "ConnectConfig")
  /\ UNCHANGED <<inp, ccache, newGSS, conn, rows, ret, ipa, w, trace,
               ctx, env, spns>>

\* MaxConnLifetime (30 s) is over: the pool closes its connection.
PoolExpire(r) ==
  /\ pc[r] = "pool"
  /\ conn[r].state = "ESTABLISHED"
  /\ conn' = Set(conn, r, [conn[r] EXCEPT !.state = "CLOSED"])
  /\ trace' = Log(r, <<Ev("conn.Close", TRUE)>>)
  /\ UNCHANGED <<pc, inp, ccache, newGSS, rows, ret, ipa, w, ctx, env, spns>>

\* The pool's owner closes the pool, and with it the connection it holds.
PoolClose(r) ==
  /\ pc[r] = "pool"
  /\ pc' = Set(pc, r, "done")
  /\ IF conn[r].state = "ESTABLISHED"
     THEN /\ conn' = Set(conn, r, [conn[r] EXCEPT !.state = "CLOSED"])
          /\ trace' = Log(r, <<Ev("conn.Close", TRUE)>>)
     ELSE UNCHANGED <<conn, trace>>
  /\ UNCHANGED <<inp, ccache, newGSS, rows, ret, ipa, w, ctx, env, spns>>


\* ------------------------------------------------- IpaUserHandler (entry)

\* A handler that looks at the uid parameter before the credential header.
IpaUserEntryUidFirst(rw, ccacheRaw, uid) ==
  IF uid = ""
  THEN [w |-> HttpError(rw, "uid is required", 400), pc |-> "done",
        ccache |-> <<>>]
  ELSE IF ccacheRaw = <<>>
  THEN [w |-> HttpError(rw, "unauthorized ", 401), pc |-> "done",
        ccache |-> <<>>]
  ELSE LET parts == Split(ccacheRaw, ":") IN
       IF Len(parts) < 2
       THEN [w |-> rw, pc |-> "panic", ccache |-> <<>>]
       ELSE [w |-> rw, pc |-> "loginKerberos", ccache |-> parts[2]]

\* A handler that hands whatever uid it got, the empty one too, to UserShow.
IpaUserEntryAnyUid(rw, ccacheRaw, uid) ==
  IF ccacheRaw = <<>>
  THEN [w |-> HttpError(rw, "unauthorized ", 401), pc |-> "done",
        ccache |-> <<>>]
  ELSE LET parts == Split(ccacheRaw, ":") IN
       IF Len(parts) < 2
       THEN [w |-> rw, pc |-> "panic", ccache |-> <<>>]
       ELSE [w |-> rw, pc |-> "loginKerberos", ccache |-> parts[2]]

\* Lines 166-180 of the handler.
IpaUserEntry(rw, ccacheRaw, uid) ==
  IF ccacheRaw = <<>>
  THEN [w |-> HttpError(rw, "unauthorized ", 401), pc |-> "done",
        ccache |-> <<>>]
  ELSE LET parts == Split(ccacheRaw, ":") IN
       IF Len(parts) < 2
       THEN \* strings.Split(ccacheRaw, ":")[1]: index out of range
            [w |-> rw, pc |-> "panic", ccache |-> <<>>]
       ELSE IF uid = ""
       THEN [w |-> HttpError(rw, "uid is required", 400), pc |-> "done",
             ccache |-> parts[2]]
       ELSE [w |-> rw, pc |-> "loginKerberos", ccache |-> parts[2]]

\* Line 182: context.WithTimeout(parent, 8 * time.Second).
WithTimeout(parent) == "timeout"

\* Lines 166-183: the entry checks, then the 8 s deadline for UserShow.
IpaUserHandler(r) ==
  /\ pc[r] = "IpaUserHandler"
  /\ LET e == IpaUserEntry(w[r], inp[r].header, inp[r].uid) IN
       /\ w' = Set(w, r, e.w)
       /\ pc' = Set(pc, r, e.pc)
       /\ ccache' = Set(ccache, r, e.ccache)
       /\ ctx' = Set(ctx, r, IF e.pc = "loginKerberos" THEN WithTimeout(ctx[r])
                                                       ELSE ctx[r])
  /\ UNCHANGED <<inp, newGSS, conn, rows, ret, ipa, trace, env, spns>>

\* The 8 s of line 182 are over while UserShow runs.
DeadlineElapses(r) ==
  /\ pc[r] \in {"loginKerberos", "loginToken", "loginRequest", "UserShowRpc"}
  /\ ctx[r] = "timeout"
  /\ ctx' = Set(ctx, r, "expired")
  /\ UNCHANGED <<pc, inp, ccache, newGSS, conn, rows, ret, ipa, w,
               trace, env, spns>>

\* ----------------------------------------------------------- loginKerberos

\* url.Parse(...).Hostname(): the pieces after the scheme.
Hostname(u) == Tail(u)

\* The flags loginKerberos asks NewKRB5TokenAPREQ for.
HttpFlags == <<ContextFlagInteg, ContextFlagConf>>

\* UserShow returns to IpaUserHandler: a result or an error; remote is what
\* the error message quotes from the directory service's answer.
UserShowReturns(r, info, err, remote) ==
  /\ ret' = Set(ret, r, [set |-> TRUE, rows |-> <<>>, info |-> info,
                         err |-> err, remote |-> remote])
  /\ pc' = Set(pc, r, "IpaRespond")

\* UserShow / loginKerberos return an error to IpaUserHandler.
UserShowReturn(r, info, err) == UserShowReturns(r, info, err, <<>>)

\* Lines 42-64: parse the URL, load the credential cache, load the realm
\* configuration, build the Kerberos client.
LoginClient(ccachePath, krb5ConfPath, failAt) ==
  IF failAt = "url"
  THEN [err |-> "ipa url", evs |-> <<>>]
  ELSE IF failAt = "ccache" \/ ccachePath = <<>>
  THEN [err |-> "load ccache", evs |-> <<Ev("LoadCCache", FALSE)>>]
  ELSE IF failAt = "config" \/ krb5ConfPath = <<>>
  THEN [err |-> "load krb5.conf",
        evs |-> <<Ev("LoadCCache", TRUE), Ev("LoadConfig", FALSE)>>]
  ELSE IF failAt = "client"
  THEN [err |-> "kerb client",
        evs |-> <<Ev("LoadCCache", TRUE), Ev("LoadConfig", TRUE),
                  Ev("NewClient", FALSE)>>]
  ELSE [err |-> "",
        evs |-> <<Ev("LoadCCache", TRUE), Ev("LoadConfig", TRUE),
                  Ev("NewClient", TRUE)>>]

loginKerberos_Client(r) ==
  /\ pc[r] = "loginKerberos"
  /\ \E failAt \in {"", "url", "ccache", "config", "client"} :
       LET c == LoginClient(ccache[r], env.KRB5_CONFIG_PATH, failAt) IN
       /\ trace' = Log(r, c.evs)
       /\ IF c.err = ""
          THEN /\ pc' = Set(pc, r, "loginToken")
               /\ ret' = ret
          ELSE UserShowReturn(r, "", c.err)
  /\ UNCHANGED <<inp, ccache, newGSS, conn, rows, ipa, w, ctx, env, spns>>

\* Lines 42-47: the SPN of the directory service, from its base URL.
loginKerberos_SPN(ipaBaseURL) ==
  <<"HTTP", "/">> \o ToLower(Hostname(ipaBaseURL))

\* Lines 66-85: service ticket for HTTP/<host>, AP_REQ token, Marshal.
LoginToken(ccachePath, spn, nonce, failAt) ==
  IF failAt = "ticket"
  THEN [tok |-> <<>>, err |-> "service ticket",
        evs |-> <<Ev("GetServiceTicket", FALSE)>>]
  ELSE IF failAt = "build"
  THEN [tok |-> <<>>, err |-> "build AP_REQ",
        evs |-> <<Ev("GetServiceTicket", TRUE), Ev("BuildToken", FALSE)>>]
  ELSE IF failAt = "marshal"
  THEN [tok |-> <<>>, err |-> "marshal AP_REQ",
        evs |-> <<Ev("GetServiceTicket", TRUE), Ev("BuildToken", TRUE),
                  Ev("Marshal", FALSE)>>]
  ELSE [tok |-> <<KRB5TokenAPREQ(ccachePath, spn, HttpFlags, nonce)>>,
        err |-> "",
        evs |-> <<Ev("GetServiceTicket", TRUE), Ev("BuildToken", TRUE),
                  Ev("Marshal", TRUE)>>]

loginKerberos_Token(r) ==
  /\ pc[r] = "loginToken"
  /\ \E failAt \in {"", "ticket", "build", "marshal"} :
       LET spn == loginKerberos_SPN(env.FREEIPA_BASE_URL)
           t == LoginToken(ccache[r], spn,
                           NewAuthenticator(r, CountOp(trace[r], "BuildToken")),
                           failAt)
       IN /\ trace' = Log(r, t.evs)
          /\ IF t.err = ""
             THEN /\ ipa' = Set(ipa, r, [ipa[r] EXCEPT !.token = t.tok])
                  /\ pc' = Set(pc, r, "loginRequest")
                  /\ ret' = ret
             ELSE /\ UserShowReturn(r, "", t.err)
                  /\ ipa' = ipa
  /\ UNCHANGED <<inp, ccache, newGSS, conn, rows, w, ctx, env, spns>>

\* What the directory service may answer to the login request.
LoginStatuses == {200, 403}

SessionCookie == [name |-> <<"ipa_session">>, value |-> "s1"]
SessionCookie2 == [name |-> <<"ipa_session", "_x">>, value |-> "s2"]
OtherCookie == [name |-> <<"other", "ipa_session">>, value |-> "o"]

CookieLists ==
  { <<OtherCookie>>, <<OtherCookie, SessionCookie>>,
    <<SessionCookie2, SessionCookie>> }

\* strings.HasPrefix(name, prefix), on the pieces of the name.
HasPrefix(name, prefix) == Len(name) >= 1 /\ name[1] = prefix

\* Lines 106-112: the first cookie whose name starts with ipa_session.
RECURSIVE FindIpaCookie(_)
FindIpaCookie(cookies) ==
  IF cookies = <<>> THEN <<>>
  ELSE IF HasPrefix(Head(cookies).name, "ipa_session")
       THEN <<Head(cookies)>>
       ELSE FindIpaCookie(Tail(cookies))

\* A login check that looks for the cookie without looking at the status.
LoginResultAnyStatus(status, cookies) ==
  IF FindIpaCookie(cookies) = <<>>
  THEN [cookie |-> <<>>, err |-> "no ipa_session cookie returned"]
  ELSE [cookie |-> FindIpaCookie(cookies), err |-> ""]

\* Lines 101-116: what loginKerberos makes of the login response.
LoginResult(status, cookies) ==
  IF status # 200
  THEN [cookie |-> <<>>, err |-> "login_kerberos HTTP"]
  ELSE IF FindIpaCookie(cookies) = <<>>
  THEN [cookie |-> <<>>, err |-> "no ipa_session cookie returned"]
  ELSE [cookie |-> FindIpaCookie(cookies), err |-> ""]

\* The error of a request whose context is done before it is sent
\* (http.Client.Do returns ctx.Err() wrapped in a *url.Error).
DeadlineExceeded == "context deadline exceeded"

\* Lines 87-116: one GET to /ipa/session/login_kerberos with the token; the
\* request is bound to ctx (NewRequestWithContext) and is not sent once ctx
\* is done.
loginKerberos_Login(r) ==
  /\ pc[r] = "loginRequest"
  /\ LET sent == [ipa[r] EXCEPT
                    !.logins = Append(@, [authz |-> ipa[r].token])]
     IN \/ /\ ctx[r] = "expired"
           /\ UNCHANGED <<trace, ipa>>
           /\ UserShowReturn(r, "", DeadlineExceeded)
        \/ /\ ctx[r] # "expired"
           /\ trace' = Log(r, <<EvTok("Login", FALSE, ipa[r].token)>>)
           /\ ipa' = Set(ipa, r, sent)
           /\ UserShowReturn(r, "", "login_kerberos")
        \/ \E status \in LoginStatuses, cookies \in CookieLists :
             LET res == LoginResult(status, cookies) IN
             /\ ctx[r] # "expired"
             /\ trace' = Log(r, <<EvTok("Login", TRUE, ipa[r].token)>>)
             /\ ipa' = Set(ipa, r, [sent EXCEPT
                                      !.cookie = res.cookie,
                                      !.answer = <<[status |-> status,
                                                    cookies |-> cookies]>>])
             /\ IF res.err = ""
                THEN /\ pc' = Set(pc, r, "UserShowRpc")
                     /\ ret' = ret
                ELSE UserShowReturn(r, "", res.err)
  /\ UNCHANGED <<inp, ccache, newGSS, conn, rows, w, ctx, env, spns>>

\* ---------------------------------------------------------------- UserShow

\* Bodies the directory service may answer the JSON-RPC call with.
RpcBodies ==
  { [decodes |-> FALSE, error |-> <<>>, result |-> ""],
    [decodes |-> TRUE, error |-> <<>>, result |-> "jdoe-record"],
    [decodes |-> TRUE, error |-> <<>>, result |-> ""],
    [decodes |-> TRUE, error |-> <<[code |-> 4001, message |-> "not found"]>>,
     result |-> ""],
    [decodes |-> TRUE, error |-> <<[code |-> 4001, message |-> "not found"]>>,
     result |-> "jdoe-record"] }

RpcStatuses == {200, 500}

\* A UserShow that returns the result whenever the response carries one and
\* looks at the error envelope only otherwise.
UserShowResultFirst(status, body) ==
  IF status # 200
  THEN [info |-> "", err |-> "json rpc HTTP", remote |-> <<status>>]
  ELSE IF ~body.decodes
  THEN [info |-> "", err |-> "decode", remote |-> <<>>]
  ELSE IF body.result # ""
  THEN [info |-> body.result, err |-> "", remote |-> <<>>]
  ELSE IF body.error # <<>>
  THEN [info |-> "", err |-> "ipa error",
        remote |-> <<body.error[1].code, body.error[1].message>>]
  ELSE [info |-> body.result, err |-> "", remote |-> <<>>]

\* Lines 150-162: what UserShow makes of the JSON-RPC response.
UserShowResult(status, body) ==
  IF status # 200
  THEN [info |-> "", err |-> "json rpc HTTP", remote |-> <<status>>]
  ELSE IF ~body.decodes
  THEN [info |-> "", err |-> "decode", remote |-> <<>>]
  ELSE IF body.error # <<>>
  THEN [info |-> "", err |-> "ipa error",
        remote |-> <<body.error[1].code, body.error[1].message>>]
  ELSE [info |-> body.result, err |-> "", remote |-> <<>>]

\* Lines 125-162: one POST to /ipa/session/json bearing the session cookie,
\* bound to ctx like the login request.
UserShow_Rpc(r) ==
  /\ pc[r] = "UserShowRpc"
  /\ LET sent == [ipa[r] EXCEPT
                    !.rpcs = Append(@, [cookie |-> ipa[r].cookie,
                                        uid |-> inp[r].uid])]
     IN \/ /\ ctx[r] = "expired"
           /\ UNCHANGED <<trace, ipa>>
           /\ UserShowReturn(r, "", DeadlineExceeded)
        \/ /\ ctx[r] # "expired"
           /\ trace' = Log(r, <<Ev("Rpc", FALSE)>>)
           /\ ipa' = Set(ipa, r, sent)
           /\ UserShowReturn(r, "", "json rpc")
        \/ \E status \in RpcStatuses, body \in RpcBodies :
             LET res == UserShowResult(status, body) IN
             /\ ctx[r] # "expired"
             /\ trace' = Log(r, <<Ev("Rpc", TRUE)>>)
             /\ ipa' = Set(ipa, r, [sent EXCEPT
                                      !.reply = <<[status |-> status,
                                                   body |-> body]>>])
             /\ UserShowReturns(r, res.info, res.err, res.remote)
  /\ UNCHANGED <<inp, ccache, newGSS, conn, rows, w, ctx, env, spns>>

\* ------------------------------------------------ IpaUserHandler (result)

\* A handler that encodes whatever UserShow returned without looking at the
\* error.
IpaUserResultIgnoreErr(rw, info, err, encodeOk) ==
  LET sent == Encode(rw, info, encodeOk) IN
  WriteHeader(IF encodeOk THEN sent ELSE HttpError(sent, "encode", 500), 200)

\* Lines 192-205: 502 on error; otherwise the record is encoded, a failed
\* encoding is reported with 500, and WriteHeader(200) is called last.
IpaUserResult(rw, info, err, encodeOk) ==
  IF err # ""
  THEN HttpError(rw, err, 502)
  ELSE LET sent == Encode(rw, info, encodeOk) IN
       WriteHeader(IF encodeOk THEN sent ELSE HttpError(sent, "encode", 500),
                   200)

\* The handler answers and returns; the deferred cancel() of line 183 runs.
IpaRespond(r) ==
  /\ pc[r] = "IpaRespond"
  /\ \E encodeOk \in BOOLEAN :
       /\ ret[r].err # "" => encodeOk
       /\ w' = Set(w, r, IpaUserResult(w[r], ret[r].info, ret[r].err,
                                       encodeOk))
  /\ pc' = Set(pc, r, "done")
  /\ ctx' = Set(ctx, r, "cancelled")
  /\ UNCHANGED <<inp, ccache, newGSS, conn, rows, ret, ipa, trace, env, spns>>

\* ----------------------------------------------------------- specification

Next ==
  \E r \in Reqs :
    \/ Serve(r)
    \/ TestSelectHandler(r)
    \/ QueryAsUser_Register(r)
    \/ ConnectConfig(r)
    \/ gssAuth_NewGSS(r)
    \/ gssAuth_GetInitToken(r)
    \/ gssAuth_Continue(r)
    \/ QueryAsUser_Query(r)
    \/ QueryAsUser_Next(r)
    \/ TestSelectRespond(r)
    \/ PoolForUser(r)
    \/ PoolAcquire(r)
    \/ PoolExpire(r)
    \/ PoolClose(r)
    \/ IpaUserHandler(r)
    \/ loginKerberos_Client(r)
    \/ loginKerberos_Token(r)
    \/ loginKerberos_Login(r)
    \/ UserShow_Rpc(r)
    \/ DeadlineElapses(r)
    \/ IpaRespond(r)

Spec == Init /\ [][Next]_vars

\* ------------------------------------------- the SPN derivations on their own

\* Characters of a hostname: an upper-case letter, a lower-case one, the dot.
HostChars == {"D", "b", "."}

\* Hostnames of up to MaxHost characters: labels separated by single dots,
\* with or without the trailing dot of a fully qualified name.
Hostnames ==
  { h \in UNION { [1..n -> HostChars] : n \in 1..MaxHost } :
      /\ h[1] # "."
      /\ \A i \in 1..(Len(h) - 1) : ~(h[i] = "." /\ h[i + 1] = ".") }

\* The process is configured with one hostname for the database and for the
\* directory service.
InitHost ==
  /\ InitRequests
  /\ \E h \in Hostnames :
       env = [KRB5_CONFIG_PATH |-> KRB5_CONFIG_PATH, PG_HOST |-> h,
              FREEIPA_BASE_URL |-> <<"https://">> \o h]
  /\ spns = NoSPN

\* The host component of an SPN service/host.
HostOf(s) == SubSeq(s, 3, Len(s))

\* The wire adapter derives its SPN (GetInitToken, lines 48-51).
DeriveWireSPN ==
  /\ spns.wire = <<>>
  /\ spns' = [spns EXCEPT !.wire =
       <<GetInitToken(NoGSS, env.PG_HOST, "postgres", <<0, 0>>, "").tok[1].spn>>]
  /\ UNCHANGED <<pc, inp, ccache, newGSS, conn, rows, ret, ipa, w, trace,
                 ctx, env>>

\* The HTTP adapter derives its SPN (loginKerberos, lines 42-47).
DeriveHttpSPN ==
  /\ spns.http = <<>>
  /\ spns' = [spns EXCEPT !.http = <<loginKerberos_SPN(env.FREEIPA_BASE_URL)>>]
  /\ UNCHANGED <<pc, inp, ccache, newGSS, conn, rows, ret, ipa, w, trace,
                 ctx, env>>

\* The wire adapter is given the host component it derived before.
DeriveWireSPNAgain ==
  /\ spns.wire # <<>> /\ spns.again = <<>>
  /\ spns' = [spns EXCEPT !.again =
       <<GetInitToken(NoGSS, HostOf(spns.wire[1]), "postgres", <<0, 0>>,
                      "").tok[1].spn>>]
  /\ UNCHANGED <<pc, inp, ccache, newGSS, conn, rows, ret, ipa, w, trace,
                 ctx, env>>

NextHost == DeriveWireSPN \/ DeriveHttpSPN \/ DeriveWireSPNAgain

SpecHost == InitHost /\ [][NextHost]_vars


\* ================================================================= claims

Handlers == {"user_show", "test_db"}
Finished(r) == pc[r] \in {"done", "panic"}

\* Events of trace t that call op and succeeded.
RECURSIVE CountOk(_, _)
CountOk(t, op) ==
  IF t = <<>> THEN 0
  ELSE (IF Head(t).op = op /\ Head(t).ok THEN 1 ELSE 0) + CountOk(Tail(t), op)

\* ---- C1
\* C1: every database connection a request opened is authenticated by the
\* factory that this very request registered, never by another request's.
C1_ConnectionUsesOwnFactory ==
  \A r \in Reqs :
    (inp[r].kind = "test_db" /\ conn[r].gss.ok) => conn[r].gss.owner = r

\* ---- C2
\* Request r has registered its factory and its handshake has not ended.
InWindow(r) ==
  \/ pc[r] \in {"ConnectConfig", "gssAuth", "GetInitToken", "Continue"}
  \/ pc[r] = "pool" /\ CountOp(trace[r], "Dial") = 0

\* C2: at most one registration-to-handshake-end window is open at any
\* instant.
C2_WindowsNeverOverlap ==
  \A r, q \in Reqs : (InWindow(r) /\ InWindow(q)) => r = q

\* ---- C3
\* C3: once QueryAsUser has returned (on any exit path) the registration
\* point no longer holds the request's factory nor its cache locator.
C3_UnregisteredOnReturn ==
  \A r \in Reqs :
    (inp[r].kind = "test_db" /\ ret[r].set) =>
      (newGSS.owner # r /\ newGSS # Factory(r, ccache[r]))

\* ---- C4
\* C4: every connection a pool made by PoolForUser(C) opens is authenticated
\* with credential cache C.
C4_PoolConnectionUsesPoolCache ==
  \A r \in Reqs :
    (inp[r].kind = "pool" /\ conn[r].gss.ok) => conn[r].gss.ccache = ccache[r]

\* ---- C5
\* C5: a connection attempt sends at most one token, exactly one once the
\* initial token went out, and whatever the peer replies Continue ends the
\* exchange: INIT (nothing sent) -> TOKEN_SENT (one sent) -> ESTABLISHED or
\* FAILED, with no further token.
C5_OneTokenPerAttempt ==
  \A r \in Reqs :
    /\ Len(conn[r].sent) <= 1
    /\ conn[r].state \in {"none", "INIT"} => conn[r].sent = <<>>
    /\ conn[r].state \in {"TOKEN_SENT", "ESTABLISHED"} => Len(conn[r].sent) = 1
    /\ CountOp(trace[r], "SendToken") <= CountOk(trace[r], "Dial")
    /\ pc[r] = "Continue" <=> conn[r].state = "TOKEN_SENT"

\* A handshake was completed after the peer's reply went through Continue.
C5_Witness ==
  \E r \in Reqs :
    /\ conn[r].state = "ESTABLISHED"
    /\ CountOp(trace[r], "Continue") = 1
    /\ Len(conn[r].sent) = 1

\* ---- C6
\* The tokens sent downstream: <<r, i>> is the i-th call of request r.
Sends ==
  { x \in UNION { {r} \X (1..Len(trace[r])) : r \in Reqs } :
      trace[x[1]][x[2]].op \in {"SendToken", "Login"} }

TokenOf(x) == trace[x[1]][x[2]].tok

\* C6: every token sent downstream was built for that very attempt (there
\* are at least as many successful builds as sends, per request) and no two
\* sends, on whatever connections of whatever requests, carry the same bytes.
C6_TokensSingleUse ==
  /\ \A x, y \in Sends : x # y => TokenOf(x) # TokenOf(y)
  /\ \A r \in Reqs :
       CountOp(trace[r], "SendToken") + CountOp(trace[r], "Login")
         <= CountOk(trace[r], "Marshal")

\* Two requests of the same principal and target each sent a token.
C6_Witness ==
  \E x, y \in Sends :
    /\ x[1] # y[1]
    /\ TokenOf(x) # <<>> /\ TokenOf(y) # <<>>
    /\ TokenOf(x)[1].ccache = TokenOf(y)[1].ccache
    /\ TokenOf(x)[1].spn = TokenOf(y)[1].spn

\* ---- C7
\* C7: UserShow sends at most one login and at most one JSON-RPC request;
\* the JSON-RPC request is sent only after a login answered 200 with a
\* cookie named ipa_session..., and carries that cookie and no other; a
\* failed login ends with an error and no JSON-RPC request.
C7_OneLoginOneRpc ==
  \A r \in Reqs :
    /\ Len(ipa[r].logins) <= 1
    /\ Len(ipa[r].rpcs) <= 1
    /\ CountOp(trace[r], "Login") <= 1
    /\ CountOp(trace[r], "Rpc") <= 1
    /\ ipa[r].rpcs # <<>> =>
         /\ Len(ipa[r].answer) = 1
         /\ ipa[r].answer[1].status = 200
         /\ Len(ipa[r].rpcs[1].cookie) = 1
         /\ \E i \in 1..Len(ipa[r].answer[1].cookies) :
              /\ ipa[r].answer[1].cookies[i] = ipa[r].rpcs[1].cookie[1]
              /\ ipa[r].rpcs[1].cookie[1].name[1] = "ipa_session"
    /\ (/\ ret[r].set
        /\ inp[r].kind = "user_show"
        /\ \/ ipa[r].answer = <<>>
           \/ ipa[r].answer[1].status # 200
           \/ \A i \in 1..Len(ipa[r].answer[1].cookies) :
                ipa[r].answer[1].cookies[i].name[1] # "ipa_session")
       => (ipa[r].rpcs = <<>> /\ ret[r].err # "")

\* A login was answered 200 with a session cookie among others and the
\* JSON-RPC request went out.
C7_Witness ==
  \E r \in Reqs :
    /\ Len(ipa[r].rpcs) = 1
    /\ Len(ipa[r].answer[1].cookies) = 2
    /\ ret[r].set

\* ---- C8
\* C8: a request without the credential header is answered 401 (also when
\* the uid parameter is missing too) and loads no credential cache, asks for
\* no ticket, registers nothing and opens no connection.
C8_NoHeaderUnauthorized ==
  \A r \in Reqs :
    (inp[r].kind \in Handlers /\ inp[r].header = <<>>) =>
      /\ trace[r] = <<>>
      /\ conn[r] = NoConn
      /\ newGSS.owner # r
      /\ ipa[r] = NoIpa
      /\ ~ret[r].set
      /\ pc[r] # "panic"
      /\ Finished(r) => (w[r].status = 401 /\ w[r].calls = <<401>>)

\* Both handlers answered a request that reached them without the header,
\* the /user_show one without a uid either.
C8_Witness ==
  \E r, q \in Reqs :
    /\ inp[r].kind = "user_show" /\ inp[r].hasId /\ inp[r].header = <<>>
    /\ inp[r].uid = "" /\ Finished(r)
    /\ inp[q].kind = "test_db" /\ inp[q].hasId /\ inp[q].header = <<>>
    /\ Finished(q)

\* ---- C9
\* The header is present and has no ':'-separated locator part.
NoLocator(header) == header # <<>> /\ Len(Split(header, ":")) < 2

\* C9: a request whose credential is present but invalid (no locator part in
\* the header, or no authenticated identity) is answered 401 and nothing
\* else is done for it.
C9_InvalidCredentialUnauthorized ==
  \A r \in Reqs :
    (/\ inp[r].kind \in Handlers
     /\ Finished(r)
     /\ NoLocator(inp[r].header) \/ (inp[r].header # <<>> /\ ~inp[r].hasId))
    => (pc[r] = "done" /\ w[r].status = 401 /\ trace[r] = <<>>)

\* ---- C10
\* C10: a query that returned n rows is answered with exactly n records, the
\* i-th being the i-th row decoded.
C10_OneRecordPerRow ==
  \A r \in Reqs :
    (inp[r].kind = "test_db" /\ pc[r] = "done" /\ ret[r].set
       /\ ret[r].err = "" /\ w[r].body # <<>> /\ w[r].body[1].kind = "json")
    => /\ Len(w[r].body[1].val) = Len(ret[r].rows)
       /\ \A i \in 1..Len(ret[r].rows) :
            w[r].body[1].val[i] = DecodeRow(ret[r].rows[i])

\* ---- C11
\* Position of the first event of trace t that calls op (0 when none).
RECURSIVE IndexOf(_, _, _)
IndexOf(t, op, i) ==
  IF i > Len(t) THEN 0
  ELSE IF t[i].op = op THEN i ELSE IndexOf(t, op, i + 1)

\* C11: the connection QueryAsUser opened stays open while QueryAsUser uses
\* it and is closed, once, when QueryAsUser has returned, on every exit path
\* (query error, row-decoding error, row-iteration error, success); the row
\* sequence of a query that ran is closed once, before the connection is
\* closed and never after.
C11_ConnectionClosedAfterRows ==
  \A r \in Reqs :
    inp[r].kind = "test_db" =>
      /\ pc[r] \in {"Query", "Next"} =>
           (conn[r].state = "ESTABLISHED"
              /\ CountOp(trace[r], "conn.Close") = 0
              /\ CountOp(trace[r], "rows.Close") = 0)
      /\ ret[r].set =>
           /\ conn[r].state \in {"none", "FAILED", "CLOSED"}
           /\ CountOp(trace[r], "conn.Close")
                = (IF CountOk(trace[r], "Dial") = 1
                      /\ conn[r].state = "CLOSED" THEN 1 ELSE 0)
           /\ conn[r].state = "CLOSED" <=> CountOp(trace[r], "conn.Close") = 1
           /\ CountOp(trace[r], "rows.Close") = CountOk(trace[r], "Query")
           /\ CountOk(trace[r], "Query") = 1 =>
                /\ IndexOf(trace[r], "Query", 1)
                     < IndexOf(trace[r], "rows.Close", 1)
                /\ IndexOf(trace[r], "rows.Close", 1)
                     < IndexOf(trace[r], "conn.Close", 1)

\* QueryAsUser returned on each of its four exit paths after the handshake:
\* a failed query, a row that does not decode, a failed iteration, success.
C11_Witness ==
  \E r, q \in Reqs :
    /\ inp[r].kind = "test_db" /\ ret[r].set /\ ret[r].err = "rows"
    /\ Len(ret[r].rows) = 1 /\ conn[r].state = "CLOSED"
    /\ inp[q].kind = "test_db" /\ ret[q].set /\ ret[q].err = "query"
    /\ conn[q].state = "CLOSED"

\* ---- C12
\* Where a request does downstream work: ticket acquisition and the two
\* handshakes (there is no slot to acquire).
BrokerStages ==
  {"QueryAsUser", "ConnectConfig", "gssAuth", "GetInitToken", "Continue",
   "Query", "Next", "loginKerberos", "loginToken", "loginRequest",
   "UserShowRpc"}

\* The calls a deadline governs: the ticket request and the steps of the two
\* handshakes.
DeadlineOps == {"GetServiceTicket", "Dial", "SendToken", "Login", "Rpc"}

\* C12: every request doing downstream work carries a deadline, and once the
\* deadline is over the request requests no ticket and takes no further
\* handshake step, what it returns is the deadline failure, and it holds no
\* connection.
C12_DeadlineHonored ==
  [][\A r \in Reqs :
       /\ (inp'[r].kind \in Handlers /\ pc'[r] \in BrokerStages)
            => ctx'[r] \in {"timeout", "expired"}
       /\ ctx[r] = "expired" =>
            /\ \A op \in DeadlineOps :
                 CountOp(trace'[r], op) = CountOp(trace[r], op)
            /\ ret'[r].set => ret'[r].err = DeadlineExceeded
            /\ conn'[r].state \notin {"INIT", "TOKEN_SENT", "ESTABLISHED"}]_vars

\* ---- C13
\* Every step of the directory lookup of request r succeeded: the Kerberos
\* client was built from cache and configuration, the token was built, the
\* login was answered 200 with a session cookie, and the JSON-RPC call was
\* answered 200 with a body that decodes and has no error envelope.
LookupSucceeded(r) ==
  /\ CountOk(trace[r], "LoadCCache") = 1
  /\ CountOk(trace[r], "LoadConfig") = 1
  /\ CountOk(trace[r], "NewClient") = 1
  /\ CountOk(trace[r], "GetServiceTicket") = 1
  /\ CountOk(trace[r], "Marshal") = 1
  /\ CountOk(trace[r], "Login") = 1
  /\ Len(ipa[r].answer) = 1
  /\ ipa[r].answer[1].status = 200
  /\ FindIpaCookie(ipa[r].answer[1].cookies) # <<>>
  /\ CountOk(trace[r], "Rpc") = 1
  /\ Len(ipa[r].reply) = 1
  /\ ipa[r].reply[1].status = 200
  /\ ipa[r].reply[1].body.decodes
  /\ ipa[r].reply[1].body.error = <<>>

\* C13: when any step of the directory lookup failed, /user_show answers 502
\* with an error message and no directory record; a record is in the answer
\* only when every step succeeded, and it is the one the directory returned.
C13_LookupFailureBadGateway ==
  \A r \in Reqs :
    (inp[r].kind = "user_show" /\ pc[r] = "done" /\ ret[r].set) =>
      /\ ~LookupSucceeded(r) =>
           /\ w[r].status = 502
           /\ w[r].calls = <<502>>
           /\ Len(w[r].body) = 1
           /\ w[r].body[1].kind = "error"
      /\ \A i \in 1..Len(w[r].body) :
           w[r].body[i].kind = "json" =>
             /\ LookupSucceeded(r)
             /\ w[r].body[i].val = ipa[r].reply[1].body.result

\* Two lookups that failed were answered: one whose login was rejected with
\* 403 and one whose JSON-RPC answer carried an error envelope next to a
\* result.
C13_Witness ==
  \E r, q \in Reqs :
    /\ inp[r].kind = "user_show" /\ pc[r] = "done" /\ ret[r].set
    /\ Len(ipa[r].answer) = 1 /\ ipa[r].answer[1].status = 403
    /\ inp[q].kind = "user_show" /\ pc[q] = "done" /\ ret[q].set
    /\ Len(ipa[q].reply) = 1 /\ ipa[q].reply[1].status = 200
    /\ ipa[q].reply[1].body.error # <<>>
    /\ ipa[q].reply[1].body.result # ""

\* ---- C14
\* C14: a /user_show request that reached the handler, whose credential
\* header names a cache and whose uid parameter is missing, is answered 400
\* and nothing else, and no
\* credential cache is loaded, no ticket requested and no request sent to
\* the directory for it.
C14_MissingUidBadRequest ==
  \A r \in Reqs :
    (/\ inp[r].kind = "user_show" /\ inp[r].hasId
     /\ inp[r].header # <<>> /\ ~NoLocator(inp[r].header)
     /\ inp[r].uid = ""
     /\ pc[r] # "IpaUserHandler")
    => /\ pc[r] = "done"
       /\ w[r].status = 400
       /\ w[r].calls = <<400>>
       /\ w[r].body = <<[kind |-> "error", val |-> "uid is required"]>>
       /\ trace[r] = <<>>
       /\ ipa[r] = NoIpa
       /\ ~ret[r].set
       /\ ctx[r] = "background"

\* The handler answered a request that has a cache locator and no uid.
C14_Witness ==
  \E r \in Reqs :
    /\ inp[r].kind = "user_show" /\ inp[r].hasId
    /\ inp[r].header = <<"FILE", ":", "/tmp/cc_a">>
    /\ inp[r].uid = ""
    /\ pc[r] = "done"

\* ---- C15
\* The flag bits of the flags word of a token (bits 1 .. 64).
FlagBits(word) == { b \in {1, 2, 4, 8, 16, 32, 64} : (word \div b) % 2 = 1 }

\* C15: every token sent to the directory's login endpoint carries exactly
\* the flags integrity and confidentiality, and every token sent on the
\* database wire exactly integrity, confidentiality and mutual
\* authentication.
C15_FlagsPerDownstream ==
  \A x \in Sends :
    LET e == trace[x[1]][x[2]] IN
    /\ Len(e.tok) = 1
    /\ e.op = "Login" =>
         FlagBits(e.tok[1].flags) = {ContextFlagInteg, ContextFlagConf}
    /\ e.op = "SendToken" =>
         FlagBits(e.tok[1].flags)
           = {ContextFlagInteg, ContextFlagConf, ContextFlagMutual}

\* A token went to the database and another to the directory.
C15_Witness ==
  \E x, y \in Sends :
    /\ trace[x[1]][x[2]].op = "Login"
    /\ trace[y[1]][y[2]].op = "SendToken"

\* ---- C16
\* C16: UserShow returns a result only when the JSON-RPC response has status
\* 200 and no error envelope, and then it is the response's result; a
\* response with another status gives the transport error; an error envelope
\* gives the application error with the remote code and message, also when
\* the response carries a result too; a result and an error are never
\* returned together.
C16_ResultOrError ==
  \A r \in Reqs :
    (inp[r].kind = "user_show" /\ ret[r].set) =>
      /\ ~(ret[r].info # "" /\ ret[r].err # "")
      /\ ipa[r].reply = <<>> => (ret[r].err # "" /\ ret[r].info = "")
      /\ ipa[r].reply # <<>> =>
           LET status == ipa[r].reply[1].status
               body == ipa[r].reply[1].body
           IN /\ status # 200 =>
                   /\ ret[r].err = "json rpc HTTP"
                   /\ ret[r].remote = <<status>>
              /\ (status = 200 /\ body.decodes /\ body.error # <<>>) =>
                   /\ ret[r].err = "ipa error"
                   /\ ret[r].remote = <<body.error[1].code,
                                        body.error[1].message>>
              /\ ret[r].err = "" <=>
                   (status = 200 /\ body.decodes /\ body.error = <<>>)
              /\ ret[r].err = "" => ret[r].info = body.result

\* UserShow returned after a 200 response that carries an error envelope and
\* a result, and after one that carries a result only.
C16_Witness ==
  \E r, q \in Reqs :
    /\ ret[r].set /\ ipa[r].reply # <<>>
    /\ ipa[r].reply[1].status = 200
    /\ ipa[r].reply[1].body.error # <<>>
    /\ ipa[r].reply[1].body.result = "jdoe-record"
    /\ ret[q].set /\ ipa[q].reply # <<>>
    /\ ipa[q].reply[1].status = 200
    /\ ipa[q].reply[1].body.error = <<>>
    /\ ret[q].info = "jdoe-record"

\* ---- C17
\* The steps of an adapter, as they appear in a trace.
StepOps ==
  {"LoadCCache", "LoadConfig", "NewClient", "GetServiceTicket", "BuildToken",
   "Marshal", "SendToken", "Login"}

\* Where the connection attempt that event i of trace t belongs to began:
\* the last Dial before i (0 when there is none).
AttemptStart(t, i) ==
  LET dials == { j \in 1..(i - 1) : t[j].op = "Dial" } IN
  IF dials = {} THEN 0 ELSE CHOOSE j \in dials : \A k \in dials : k <= j

\* Step op succeeded in the same attempt, before event i.
OkBefore(t, op, i) ==
  \E k \in (AttemptStart(t, i) + 1)..(i - 1) : t[k].op = op /\ t[k].ok

\* Event i of trace t directly follows the success of step op.
Follows(t, i, op) == i > 1 /\ t[i - 1] = Ev(op, TRUE)

\* C17: in both adapters the steps run strictly in the order credential-cache
\* load, realm-configuration load, ticket request, token build, token sent,
\* and a failure at any step stops the sequence: no ticket is requested
\* unless the cache and the configuration loaded, no token is built unless a
\* ticket was issued, no token is sent unless it was built and serialised.
C17_StepsInOrder ==
  \A r \in Reqs : \A i \in 1..Len(trace[r]) :
    LET t == trace[r]
        e == t[i]
    IN /\ e.op = "LoadConfig" => Follows(t, i, "LoadCCache")
       /\ e.op = "NewClient" => Follows(t, i, "LoadConfig")
       /\ e.op = "GetServiceTicket" =>
            /\ OkBefore(t, "LoadCCache", i)
            /\ OkBefore(t, "LoadConfig", i)
       /\ e.op = "BuildToken" => Follows(t, i, "GetServiceTicket")
       /\ e.op = "Marshal" => Follows(t, i, "BuildToken")
       /\ e.op \in {"SendToken", "Login"} =>
            (Follows(t, i, "Marshal") /\ Len(e.tok) = 1)
       /\ (e.op \in StepOps /\ ~e.ok) =>
            (i = Len(t) \/ t[i + 1].op = "Dial")

\* ---- C18
\* C18: the host component of the SPN is the hostname lower-cased and
\* without its trailing dot; the HTTP adapter and the wire adapter derive
\* the same host component from the same hostname; and a host component fed
\* back through the normalisation comes out unchanged.
C18_SameNormalisation ==
  /\ spns.wire # <<>> =>
       HostOf(spns.wire[1]) = TrimSuffixDot(ToLower(env.PG_HOST))
  /\ spns.http # <<>> =>
       HostOf(spns.http[1]) = TrimSuffixDot(ToLower(env.PG_HOST))
  /\ (spns.wire # <<>> /\ spns.http # <<>>) =>
       HostOf(spns.wire[1]) = HostOf(spns.http[1])
  /\ spns.again # <<>> => spns.again = spns.wire

\* ---- C19
\* C19: a handler sets the response status once: it calls WriteHeader
\* (directly or through http.Error) at most once and never after the header
\* went out with a body; an error message is the last thing it writes; and
\* once it has written anything it does no further work.
C19_OneStatusPerRequest ==
  \A r \in Reqs :
    (inp[r].kind \in Handlers /\ inp[r].hasId) =>
      /\ Len(w[r].calls) <= 1
      /\ w[r].superfluous = 0
      /\ \A i \in 1..Len(w[r].body) :
           w[r].body[i].kind = "error" => i = Len(w[r].body)
      /\ w[r].status # 0 => pc[r] = "done"

====
